---- MODULE Spec2Model ----
(***************************************************************************)
(* Model of acids_transforms: the transform composition algebra of         *)
(* transforms/base.py and the spectral representations of                  *)
(* transforms/spectral_repr.py.                                            *)
(*                                                                         *)
(* Spec, SpecApply, SpecFlags, SpecScale : a session that composes         *)
(*            transforms with +, changes flags, fits (scale_data) and      *)
(*            applies forward / forward_with_time / invert.                *)
(* SpecIF   : one IF instance: forward, scale_data, invert, and the cached *)
(*            weighting window.                                            *)
(* SpecCartesian : one Cartesian instance: scale_data, forward, invert.    *)
(***************************************************************************)
EXTENDS Integers, Sequences, FiniteSets, TLC

\* Longest child list a composition is grown to.
MaxLen == 3
\* Number of distinct input signals (and of distinct time channels).
NInput == 2

(***************************************************************************)
(* Objects.  A Python object is a record: its class, an identity for leaf  *)
(* transform instances, and for a ComposeAudioTransform its child list     *)
(* (self.transforms, an nn.ModuleList).                                    *)
(*   leaf 1    an instance of AudioTransform itself (base.py 16-57)        *)
(*   leaf 2, 3 instances of a _Representation subclass (Real, ...), whose  *)
(*             forward and invert go through the instance's normaliser     *)
(***************************************************************************)
Leaves == {1, 2, 3}

LeafClass(t) == IF t = 1 THEN "AudioTransform" ELSE "_Representation"

PlainLeaves == {t \in Leaves : LeafClass(t) = "AudioTransform"}

ReprLeaves == {t \in Leaves : LeafClass(t) = "_Representation"}

Leaf(t) == [cls |-> LeafClass(t), id |-> t, transforms |-> <<>>]

LeafObjs == {Leaf(t) : t \in Leaves}

\* A value that is not a transform (an int, a float, None, ...).
NonTransform == [cls |-> "int", id |-> 0, transforms |-> <<>>]

NoObj == [cls |-> "None", id |-> 0, transforms |-> <<>>]

\* ComposeAudioTransform.__init__: self.transforms = nn.ModuleList(transforms)
NewCompose(ts) == [cls |-> "ComposeAudioTransform", id |-> 0, transforms |-> ts]

IsCompose(o) == o.cls = "ComposeAudioTransform"

\* isinstance(o, AudioTransform)
IsAudioTransform(o) == o.cls \in {"AudioTransform", "_Representation", "ComposeAudioTransform"}

(***************************************************************************)
(* Data.  A signal is a sequence of tokens: the input it started from and  *)
(* the child calls applied to it since, each with the normaliser state     *)
(* (the data the instance was last fitted on; << >> = never fitted) it was *)
(* computed with.  Two signals are equal iff the same calls were applied   *)
(* in the same order with the same fitted state.                           *)
(***************************************************************************)
Input(k) == <<[op |-> "input", t |-> k, fit |-> <<>>]>>

Time(k) == <<[op |-> "time", t |-> k, fit |-> <<>>]>>

Inputs == {Input(k) : k \in 1..NInput}

Times == {Time(k) : k \in 1..NInput}

Unfitted == <<>>

Ok(v) == [err |-> "", val |-> v]

Err(e) == [err |-> e, val |-> <<>>]

OkObj(o) == [err |-> "", obj |-> o]

ErrObj(e) == [err |-> e, obj |-> NoObj]

VARIABLES
  attrs,   \* attrs[t]: the three flags of plain leaf t (class attributes, assignable)
  fit,     \* fit[t]: the data the normaliser of representation leaf t was fitted on
  cur,     \* the composed transform the session holds
  res,     \* the last operation: what was called, on what, and what came back
  ifst,    \* the IF instance: method, weighted, weighted_window
  ifres,   \* the last call on the IF instance
  cart,    \* the Cartesian instance: stack, and its two children's normalisers
  cres,    \* the last call on the Cartesian instance
  elem,    \* one elementary representation: its configuration and what it was fitted on
  eres     \* the last call on the elementary representation

composeVars == <<attrs, fit, cur, res>>

ifVars == <<ifst, ifres>>

reprVars == <<cart, cres>>

elemVars == <<elem, eres>>

vars == <<attrs, fit, cur, res, ifst, ifres, cart, cres, elem, eres>>

(***************************************************************************)
(* Flags.  AudioTransform holds invertible / scriptable / needs_scaling as *)
(* plain class attributes (True / False / False); _Representation          *)
(* overrides them with read-only properties; ComposeAudioTransform         *)
(* computes them from its children on every read.                          *)
(***************************************************************************)
AudioTransformFlags == [invertible |-> TRUE, scriptable |-> FALSE, needs_scaling |-> FALSE]

RepresentationFlags == [invertible |-> TRUE, scriptable |-> TRUE, needs_scaling |-> FALSE]

FlagNames == {"invertible", "scriptable", "needs_scaling"}

RECURSIVE Invertible(_, _)
RECURSIVE Scriptable(_, _)
RECURSIVE NeedsScaling(_, _)

\* for t in self.transforms: if not t.invertible: return False / return True
RECURSIVE ComposeInvertible(_, _)
ComposeInvertible(ts, at) ==
  IF ts = <<>> THEN TRUE
  ELSE IF ~Invertible(Head(ts), at) THEN FALSE
  ELSE ComposeInvertible(Tail(ts), at)

\* Mutant: needs_scaling written like the other two flags (all instead of any).
ComposeNeedsScaling_All(ts, at) ==
  \A i \in 1..Len(ts) : NeedsScaling(ts[i], at)

\* for t in self.transforms: if t.needs_scaling: return True / return False
RECURSIVE ComposeNeedsScaling(_, _)
ComposeNeedsScaling(ts, at) ==
  IF ts = <<>> THEN FALSE
  ELSE IF NeedsScaling(Head(ts), at) THEN TRUE
  ELSE ComposeNeedsScaling(Tail(ts), at)

\* for t in self.transforms: if not t.scriptable: return False / return True
RECURSIVE ComposeScriptable(_, _)
ComposeScriptable(ts, at) ==
  IF ts = <<>> THEN TRUE
  ELSE IF ~Scriptable(Head(ts), at) THEN FALSE
  ELSE ComposeScriptable(Tail(ts), at)

Invertible(o, at) ==
  IF IsCompose(o) THEN ComposeInvertible(o.transforms, at)
  ELSE IF o.cls = "AudioTransform" THEN at[o.id].invertible
  ELSE RepresentationFlags.invertible

Scriptable(o, at) ==
  IF IsCompose(o) THEN ComposeScriptable(o.transforms, at)
  ELSE IF o.cls = "AudioTransform" THEN at[o.id].scriptable
  ELSE RepresentationFlags.scriptable

NeedsScaling(o, at) ==
  IF IsCompose(o) THEN ComposeNeedsScaling(o.transforms, at)
  ELSE IF o.cls = "AudioTransform" THEN at[o.id].needs_scaling
  ELSE RepresentationFlags.needs_scaling

(***************************************************************************)
(* The + operator.  self.transforms is an nn.ModuleList; the operand       *)
(* built in place ([self], [itm]) is a Python list.  nn.ModuleList defines *)
(* __add__ (it accepts any iterable of modules and returns a ModuleList)   *)
(* and __iadd__, and no __radd__: ModuleList + x concatenates, while       *)
(* list + ModuleList is refused by list concatenation with a TypeError.    *)
(***************************************************************************)
ConcatOk(s) == [err |-> "", seq |-> s]

ConcatErr(e) == [err |-> e, seq |-> <<>>]

\* left + right, each "list" or "ModuleList"
SeqAdd(ltype, l, rtype, r) ==
  IF ltype = "ModuleList" THEN ConcatOk(l \o r)
  ELSE IF rtype = "list" THEN ConcatOk(l \o r)
  ELSE ConcatErr("TypeError")

\* ComposeAudioTransform(transforms = <the concatenation>); the exception of
\* the argument expression propagates.
ComposeOf(c) == IF c.err # "" THEN ErrObj(c.err) ELSE OkObj(NewCompose(c.seq))

\* AudioTransform.__add__(self, transform)
AudioTransformAdd(self, transform) ==
  IF IsCompose(transform)
    THEN ComposeOf(SeqAdd("list", <<self>>, "ModuleList", transform.transforms))
  ELSE IF IsAudioTransform(transform)
    THEN ComposeOf(ConcatOk(<<self, transform>>))
  ELSE ErrObj("TypeError")

\* ComposeAudioTransform.__add__(self, itm)
ComposeAdd(self, itm) ==
  IF ~IsAudioTransform(itm) THEN ErrObj("TypeError")
  ELSE IF IsCompose(itm)
    THEN ComposeOf(SeqAdd("ModuleList", self.transforms, "ModuleList", itm.transforms))
  ELSE ComposeOf(SeqAdd("ModuleList", self.transforms, "list", <<itm>>))

\* Mutant: a reflected add that lets a non-transform through (as written to
\* support sum(), which starts from 0) and returns the composition itself.
ComposeRadd_Lenient(self, other) ==
  IF ~IsAudioTransform(other) THEN OkObj(self)
  ELSE IF IsCompose(other)
    THEN ComposeOf(SeqAdd("ModuleList", other.transforms, "ModuleList", self.transforms))
  ELSE ComposeOf(SeqAdd("list", <<other>>, "ModuleList", self.transforms))

\* ComposeAudioTransform.__radd__(self, other)
ComposeRadd(self, other) ==
  IF ~IsAudioTransform(other) THEN ErrObj("TypeError")
  ELSE IF IsCompose(other)
    THEN ComposeOf(SeqAdd("ModuleList", other.transforms, "ModuleList", self.transforms))
  ELSE ComposeOf(SeqAdd("list", <<other>>, "ModuleList", self.transforms))

(***************************************************************************)
(* a + b as Python evaluates it.  The reflected method of the right        *)
(* operand runs first when its class is a proper subclass of the left      *)
(* operand's class and defines the reflected method: that is               *)
(* ComposeAudioTransform.__radd__ under an instance of AudioTransform      *)
(* itself.  Otherwise a.__add__(b) runs; an exception it raises ends the   *)
(* expression.  A non-transform left operand does not know transforms (its *)
(* __add__ returns NotImplemented), so b.__radd__(a) runs if b has one;    *)
(* AudioTransform has none and the interpreter raises TypeError.           *)
(***************************************************************************)
BinaryAdd(a, b) ==
  IF IsCompose(a) THEN ComposeAdd(a, b)
  ELSE IF IsAudioTransform(a) THEN
    IF IsCompose(b) /\ a.cls = "AudioTransform" THEN ComposeRadd(b, a)
    ELSE AudioTransformAdd(a, b)
  ELSE IF IsCompose(b) THEN ComposeRadd(b, a)
  ELSE ErrObj("TypeError")

\* (a + b) + c and a + (b + c): an exception of the inner + ends the expression
AddLeft(a, b, c) ==
  LET ab == BinaryAdd(a, b) IN IF ab.err # "" THEN ab ELSE BinaryAdd(ab.obj, c)

AddRight(a, b, c) ==
  LET bc == BinaryAdd(b, c) IN IF bc.err # "" THEN bc ELSE BinaryAdd(a, bc.obj)
(***************************************************************************)
(* The methods.  f is the fitted state of the representation leaves.       *)
(*   AudioTransform:   forward(x) = x, invert(x) = x with no further       *)
(*                     parameter, scale_data = pass.                       *)
(*   _Representation:  forward = self.norm(...), invert(x, inversion_mode, *)
(*                     tolerance) = self.norm.invert(x), scale_data fits   *)
(*                     self.norm on the data.                              *)
(* A call that raises gives [err |-> <exception>]; kw says that the caller *)
(* passes inversion_mode = and tolerance = by keyword.                     *)
(***************************************************************************)
Call(name, o, f) == [op |-> name, t |-> o.id, fit |-> f[o.id]]

RECURSIVE Forward(_, _, _)
RECURSIVE Invert(_, _, _, _)
RECURSIVE ForwardWithTime(_, _, _, _)
RECURSIVE ScaleData(_, _, _)

\* for t in self.transforms: x = t(x) / return x
RECURSIVE ComposeForward(_, _, _)
ComposeForward(ts, x, f) ==
  IF ts = <<>> THEN x
  ELSE ComposeForward(Tail(ts), Forward(Head(ts), x, f), f)

\* for t in self.transforms[::-1]:
\*     x = t.invert(x, inversion_mode=inversion_mode, tolerance=tolerance)
\* return x               (i children are still to be inverted)
RECURSIVE ComposeInvert(_, _, _, _)
ComposeInvert(ts, i, x, f) ==
  IF i = 0 THEN Ok(x)
  ELSE LET r == Invert(ts[i], x, f, TRUE)
       IN IF r.err # "" THEN r ELSE ComposeInvert(ts, i - 1, r.val, f)

\* Mutant: every child is handed the caller's x instead of the running value.
RECURSIVE ComposeForwardWithTime_NoThread(_, _, _, _)
ComposeForwardWithTime_NoThread(ts, x, time, f) ==
  IF ts = <<>> THEN <<x, time>>
  ELSE IF Len(ts) = 1 THEN ForwardWithTime(Head(ts), x, time, f)
  ELSE ComposeForwardWithTime_NoThread(Tail(ts), x, ForwardWithTime(Head(ts), x, time, f)[2], f)

\* for t in self.transforms: x, time = t.forward_with_time(x, time) / return x, time
RECURSIVE ComposeForwardWithTime(_, _, _, _)
ComposeForwardWithTime(ts, x, time, f) ==
  IF ts = <<>> THEN <<x, time>>
  ELSE LET r == ForwardWithTime(Head(ts), x, time, f)
       IN ComposeForwardWithTime(Tail(ts), r[1], r[2], f)

\* Mutant: every child is fitted on the caller's x (the "x = t(x)" is missing).
RECURSIVE ComposeScaleData_Raw(_, _, _)
ComposeScaleData_Raw(ts, x, st) ==
  IF ts = <<>> THEN st
  ELSE ComposeScaleData_Raw(Tail(ts), x, ScaleData(Head(ts), x, st))

\* for t in self.transforms: t.scale_data(x); x = t(x)
\* st.fit is the fitted state so far, st.log the scale_data calls made so far
RECURSIVE ComposeScaleData(_, _, _)
ComposeScaleData(ts, x, st) ==
  IF ts = <<>> THEN st
  ELSE LET s1 == ScaleData(Head(ts), x, st)
       IN ComposeScaleData(Tail(ts), Forward(Head(ts), x, s1.fit), s1)

\* AudioTransform.forward / <Representation>.forward
LeafForward(o, x, f) ==
  IF o.cls = "AudioTransform" THEN x ELSE Append(x, Call("forward", o, f))

\* AudioTransform.invert(self, x) / _Representation.invert(self, x, inversion_mode, tolerance)
LeafInvert(o, x, f, kw) ==
  IF o.cls = "AudioTransform"
    THEN IF kw THEN Err("TypeError") ELSE Ok(x)
  ELSE Ok(Append(x, Call("invert", o, f)))

\* AudioTransform.forward_with_time, inherited by every class of the model
LeafForwardWithTime(o, x, time, f) == <<Forward(o, x, f), time>>

\* AudioTransform.scale_data / <Representation>.scale_data
LeafScaleData(o, x, st) ==
  [fit |-> IF o.cls = "AudioTransform" THEN st.fit ELSE [st.fit EXCEPT ![o.id] = x],
   log |-> Append(st.log, [t |-> o.id, x |-> x])]

Forward(o, x, f) ==
  IF IsCompose(o) THEN ComposeForward(o.transforms, x, f) ELSE LeafForward(o, x, f)

Invert(o, x, f, kw) ==
  IF IsCompose(o) THEN ComposeInvert(o.transforms, Len(o.transforms), x, f)
  ELSE LeafInvert(o, x, f, kw)

ForwardWithTime(o, x, time, f) ==
  IF IsCompose(o) THEN ComposeForwardWithTime(o.transforms, x, time, f)
  ELSE LeafForwardWithTime(o, x, time, f)

ScaleData(o, x, st) ==
  IF IsCompose(o) THEN ComposeScaleData(o.transforms, x, st) ELSE LeafScaleData(o, x, st)

\* The running value each child of a composition receives in forward(x):
\* the x of "x = t(x)" before the i-th iteration.
RECURSIVE ForwardInputs(_, _, _)
ForwardInputs(ts, x, f) ==
  IF ts = <<>> THEN <<>>
  ELSE <<x>> \o ForwardInputs(Tail(ts), Forward(Head(ts), x, f), f)

(***************************************************************************)
(* Instantaneous frequency (class IF of spectral_repr.py).                 *)
(*                                                                         *)
(* A tensor is the sequence of its entries along dimension 0, which for    *)
(* the two-dimensional tensors of the model is also the axis -2 that the   *)
(* weighting window is sized by.  get_if starts from                       *)
(* fdiff_<method>(unwrap(data.angle())); unwrap and the fdiff_ / fint_     *)
(* functions are imported from utils.misc, so the finite-difference tensor *)
(* (of the shape of data) is what an action draws, and the integration of  *)
(* invert is recorded by name.  An entry is the number v * (n/d) * pi^pi,  *)
(* v the drawn finite difference, multiplied by the weighting window of    *)
(* length w when w > 0.  The instance is built with mode = None, so its    *)
(* normaliser is a Dummy (forward, invert: identity; scale_data: pass).    *)
(***************************************************************************)
\* Longest axis of a drawn tensor.
MaxN == 3

DiffValues == {1, 2}

IFMethods == {"FORWARD", "BACKWARD", "CENTRAL"}

\* what self.method may hold: an IFMethods member, or anything else
MethodValues == IFMethods \cup {"OTHER"}

Entry(v) == [v |-> v, n |-> 1, d |-> 1, pi |-> 0, w |-> 0]

Tensors == UNION {[1..k -> {Entry(v) : v \in DiffValues}] : k \in 0..MaxN}

Abs(i) == IF i < 0 THEN -i ELSE i

RECURSIVE GCD(_, _)
GCD(a, b) == IF b = 0 THEN a ELSE GCD(b, a % b)

\* e / (c * pi)  and  e * (c * pi),  c a non-zero integer
DivPi(e, c) ==
  LET n1 == IF c < 0 THEN -e.n ELSE e.n
      d1 == e.d * Abs(c)
      g  == GCD(Abs(n1), d1)
  IN [e EXCEPT !.n = n1 \div g, !.d = d1 \div g, !.pi = e.pi - 1]

MulPi(e, c) ==
  LET n1 == e.n * c
      g  == GCD(Abs(n1), e.d)
  IN [e EXCEPT !.n = n1 \div g, !.d = e.d \div g, !.pi = e.pi + 1]

\* x[lo:hi] op= c*pi  on the entries lo..hi (1-based, inclusive)
DivSlice(x, lo, hi, c) ==
  [i \in 1..Len(x) |-> IF lo <= i /\ i <= hi THEN DivPi(x[i], c) ELSE x[i]]

MulSlice(x, lo, hi, c) ==
  [i \in 1..Len(x) |-> IF lo <= i /\ i <= hi THEN MulPi(x[i], c) ELSE x[i]]

\* IF.__init__: weighted_window = torch.zeros(0, 0); the cache is kept by its shape
IFInit(method, weighted) ==
  [method |-> method, weighted |-> weighted, weighted_window |-> <<0, 0>>]

TOk(x, win) == [err |-> "", out |-> x, win |-> win]

TErr(e, win) == [err |-> e, out |-> <<>>, win |-> win]

\* IF._get_weighted_window for x.size(-2) = N, x.ndim = 2: the window handed
\* back (by its length) and the cache afterwards.
\*   self.weighted_window.size(-2) is out of range for a one-dimensional cache;
\*   (1.5 * N) / (N ** 2 - 1) is Python arithmetic and divides by zero for N = 1;
\*   the recomputed window, built from torch.arange(N), is one-dimensional.
GetWeightedWindow(st, N) ==
  LET cache == st.weighted_window IN
  IF Len(cache) < 2 THEN [err |-> "IndexError", len |-> 0, win |-> cache]
  ELSE IF cache[Len(cache) - 1] # N
    THEN IF N * N - 1 = 0 THEN [err |-> "ZeroDivisionError", len |-> 0, win |-> cache]
         ELSE [err |-> "", len |-> N, win |-> <<N>>]
  ELSE [err |-> "", len |-> cache[Len(cache) - 1], win |-> cache]

\* IF.get_if, from inst_f = fdiff_<method>(phase) on
GetIF(st, instf) ==
  LET N == Len(instf)
      scaled ==
        IF st.method = "BACKWARD" THEN DivSlice(instf, 2, N, -1)
        ELSE IF st.method = "FORWARD" THEN DivSlice(instf, 1, N - 1, 1)
        ELSE DivSlice(instf, 2, N - 1, 2)
  IN IF st.method \notin IFMethods THEN TErr("AttributeError", st.weighted_window)
     ELSE IF st.weighted
       THEN LET w == GetWeightedWindow(st, N)
            IN IF w.err # "" THEN TErr(w.err, w.win)
               ELSE TOk([i \in 1..N |-> [scaled[i] EXCEPT !.w = w.len]], w.win)
     ELSE TOk(scaled, st.weighted_window)

\* Dummy, the normaliser of a representation built with mode = None
DummyForward(x) == x

DummyInvert(x) == x

\* IF.forward: self.norm(self.get_if(x))
IFForward(st, instf) ==
  LET g == GetIF(st, instf)
  IN IF g.err # "" THEN g ELSE TOk(DummyForward(g.out), g.win)

\* IF.scale_data: self.norm.scale_data(self.get_if(x))
IFScaleData(st, instf) ==
  LET g == GetIF(st, instf)
  IN IF g.err # "" THEN g ELSE TOk(<<>>, g.win)

\* IF.invert up to the integration: x_denorm and the fint_ function applied to it
IFInvert(st, y) ==
  LET N == Len(y)
      x_denorm == DummyInvert(y)
      afterBackward ==
        IF st.method = "BACKWARD" THEN MulSlice(x_denorm, 2, N, -1) ELSE x_denorm
  IN IF st.method = "BACKWARD" THEN [pre |-> afterBackward, fint |-> "fint_backward"]
     ELSE IF st.method = "FORWARD"
       THEN [pre |-> MulSlice(afterBackward, 1, N - 1, 1), fint |-> "fint_forward"]
     ELSE IF st.method = "CENTRAL"
       THEN [pre |-> MulSlice(afterBackward, 2, N - 1, 1), fint |-> "fint_central"]
     ELSE [pre |-> afterBackward, fint |-> "none"]

NoIFRes ==
  [op |-> "none", method |-> "none", weighted |-> FALSE, x |-> <<>>, out |-> <<>>,
   err |-> "", window |-> 0, fint |-> "none", roundTrip |-> FALSE, fmethod |-> "none"]

(***************************************************************************)
(* Cartesian (SpectralRepresentation over a Real and an Imaginary child).  *)
(*                                                                         *)
(* A tensor is uniform: one number for all its elements, in fixed point    *)
(* (Scale stands for 1.0), with a flag telling whether its dtype is        *)
(* complex.  A child built with mode = None normalises with a Dummy; built *)
(* with a NormalizeMode it owns a Normalize (transforms/norm.py), taken    *)
(* here in its GAUSSIAN mode as described: (x - mean) / std, x * std +     *)
(* mean, the statistics fitted by scale_data with std clamped to Eps.      *)
(***************************************************************************)
Scale == 1000

\* the clamp of a zero standard deviation, one fixed-point unit
Eps == 1

CartValues == {0 - Scale, 0, Scale, 2 * Scale}

Real(re) == [cplx |-> FALSE, re |-> re, im |-> 0]

Complex(re, im) == [cplx |-> TRUE, re |-> re, im |-> im]

CartInputs == {Complex(a, b) : a, b \in CartValues} \cup {Real(a) : a \in CartValues}

NormModes == {"None", "GAUSSIAN"}

\* _Representation.__init__: Normalize(mode), or Dummy() for mode = None
NewNorm(mode) == [mode |-> mode, mean |-> 0, std |-> Scale]

\* self.norm(x)
NormForward(nm, x) ==
  IF nm.mode = "None" THEN x ELSE ((x - nm.mean) * Scale) \div nm.std

\* self.norm.invert(x)
NormInvert(nm, y) ==
  IF nm.mode = "None" THEN y ELSE (y * nm.std) \div Scale + nm.mean

\* self.norm.scale_data(x) on a uniform tensor of value x
NormScaleData(nm, x) ==
  IF nm.mode = "None" THEN nm ELSE [nm EXCEPT !.mean = x, !.std = Eps]

\* Cartesian.__init__ -> SpectralRepresentation.__init__(Real, Imaginary, ...)
NewCartesian(real_mode, imag_mode, stack) ==
  [magnitude |-> NewNorm(real_mode), phase |-> NewNorm(imag_mode), stack |-> stack]

\* Real.forward: self.norm(x.real)
RealForward(nm, x) == NormForward(nm, x.re)

\* Imaginary.forward: self.norm(x.imag) if torch.is_complex(x) else zeros_like(x)
ImaginaryForward(nm, x) == IF x.cplx THEN NormForward(nm, x.im) ELSE 0

\* Real.scale_data: self.norm.scale_data(x.real)
RealScaleData(nm, x) == [err |-> "", nm |-> NormScaleData(nm, x.re)]

\* Imaginary.scale_data: self.norm.scale_data(x.imag); .imag of a tensor that
\* is not complex raises
ImaginaryScaleData(nm, x) ==
  IF x.cplx THEN [err |-> "", nm |-> NormScaleData(nm, x.im)]
  ELSE [err |-> "RuntimeError", nm |-> nm]

\* _Representation.invert: self.norm.invert(x)
RepresentationInvert(nm, y) == NormInvert(nm, y)

\* cos and sin of a fixed-point angle, by the first SeriesTerms terms of
\* their series
RECURSIVE Series(_, _, _, _)
Series(term, x, k, n) ==
  IF n = 0 THEN 0
  ELSE term + Series(0 - ((((term * x) \div Scale) * x) \div Scale) \div ((k + 1) * (k + 2)),
                     x, k + 2, n - 1)

SeriesTerms == 16

Cos(x) == Series(Scale, x, 0, SeriesTerms)

Sin(x) == Series(x, x, 1, SeriesTerms)

\* mag * torch.exp(phase * 1j)
FromPolar(mag, phase) ==
  Complex((mag * Cos(phase)) \div Scale, (mag * Sin(phase)) \div Scale)

\* SpectralRepresentation.scale_data
SpectralScaleData(c, x) ==
  LET m == RealScaleData(c.magnitude, x)
      p == ImaginaryScaleData(c.phase, x)
  IN [err |-> p.err, c |-> [c EXCEPT !.magnitude = m.nm, !.phase = p.nm]]

\* SpectralRepresentation.forward: the stacked tensor, or the pair
SpectralForward(c, x) ==
  [stacked |-> c.stack # "None",
   first |-> RealForward(c.magnitude, x),
   second |-> ImaginaryForward(c.phase, x)]

\* SpectralRepresentation.invert
SpectralInvert(c, y) ==
  LET mag == RepresentationInvert(c.magnitude, y.first)
      phase == RepresentationInvert(c.phase, y.second)
  IN FromPolar(mag, phase)

NoPair == [stacked |-> FALSE, first |-> 0, second |-> 0]

NoCRes ==
  [op |-> "none", x |-> Real(0), fwd |-> NoPair, out |-> Real(0), err |-> ""]

(***************************************************************************)
(* The elementary representations: Real, Imaginary, Magnitude, Phase, IF.  *)
(*                                                                         *)
(* What forward hands to self.norm(...) and what scale_data hands to       *)
(* self.norm.scale_data(...), as the chain of tensor operations applied to *)
(* the input x (ops), and for IF the tensor get_if returns (t).  An input  *)
(* is known by its identity k, whether its dtype is complex, its number of *)
(* dimensions, and for IF the finite-difference tensor drawn for it.       *)
(***************************************************************************)
ContrastModes == {"NONE", "LOG", "LOG1P"}

\* what self.contrast_mode may hold: a ContrastMode member, or anything else
ContrastValues == ContrastModes \cup {"OTHER"}

ElemKinds == {"Real", "Imaginary", "Magnitude", "Phase", "IF"}

ElemInput(cplx, ndim, k, instf) == [cplx |-> cplx, ndim |-> ndim, k |-> k, instf |-> instf]

NoInput == ElemInput(FALSE, 0, 0, <<>>)

ElemInputs(kind) ==
  IF kind = "IF" THEN {ElemInput(TRUE, 2, 0, d) : d \in Tensors}
  ELSE {ElemInput(c, n, k, <<>>) : c \in BOOLEAN, n \in {2, 3}, k \in 1..NInput}

Quantity(ops, t) == [ops |-> ops, t |-> t]

NoQuantity == Quantity(<<>>, <<>>)

\* the normaliser was called with q / the call raised / forward returned
\* without calling the normaliser
QOk(q, win) == [err |-> "", called |-> TRUE, q |-> q, win |-> win]

QErr(e, win) == [err |-> e, called |-> FALSE, q |-> NoQuantity, win |-> win]

QSkip(win) == [err |-> "", called |-> FALSE, q |-> NoQuantity, win |-> win]

\* <Representation>.__init__ (Magnitude: contrast, mel; IF: method, weighted)
NewElem(kind, contrast, mel, method, weighted) ==
  [kind |-> kind, contrast_mode |-> contrast, mel |-> mel,
   ifst |-> IFInit(method, weighted), fitted |-> NoQuantity, fittedX |-> NoInput]

\* Magnitude.contrast
MagnitudeContrast(e, ops) ==
  IF e.contrast_mode = "LOG1P" THEN [err |-> "", ops |-> ops \o <<"add_1", "log">>]
  ELSE IF e.contrast_mode = "LOG" THEN [err |-> "", ops |-> ops \o <<"clamp_eps", "log">>]
  ELSE IF e.contrast_mode = "NONE" THEN [err |-> "", ops |-> ops]
  ELSE [err |-> "TypeError", ops |-> <<>>]

\* Magnitude.forward up to self.norm(mag)
MagnitudeForward(e, x) ==
  LET mag == <<"abs">>
      mel == IF e.mel
               THEN IF x.ndim = 3 THEN mag \o <<"bmm_mel_bank">> ELSE mag \o <<"matmul_mel_bank">>
             ELSE mag
      c == MagnitudeContrast(e, mel)
  IN IF c.err # "" THEN QErr(c.err, e.ifst.weighted_window)
     ELSE QOk(Quantity(c.ops, <<>>), e.ifst.weighted_window)

\* Magnitude.scale_data: self.norm.scale_data(x.abs())
MagnitudeScaleData(e, x) == QOk(Quantity(<<"abs">>, <<>>), e.ifst.weighted_window)

\* <kind>.forward: the argument of self.norm(...)
ElemForward(e, x) ==
  LET win == e.ifst.weighted_window IN
  IF e.kind = "Real" THEN QOk(Quantity(<<"real">>, <<>>), win)
  ELSE IF e.kind = "Imaginary"
    THEN IF x.cplx THEN QOk(Quantity(<<"imag">>, <<>>), win) ELSE QSkip(win)
  ELSE IF e.kind = "Magnitude" THEN MagnitudeForward(e, x)
  ELSE IF e.kind = "Phase" THEN QOk(Quantity(<<"angle">>, <<>>), win)
  ELSE LET g == GetIF(e.ifst, x.instf)
       IN IF g.err # "" THEN QErr(g.err, g.win)
          ELSE QOk(Quantity(<<"get_if">>, g.out), g.win)

\* <kind>.scale_data: the argument of self.norm.scale_data(...)
ElemScaleData(e, x) ==
  LET win == e.ifst.weighted_window IN
  IF e.kind = "Real" THEN QOk(Quantity(<<"real">>, <<>>), win)
  ELSE IF e.kind = "Imaginary"
    THEN IF x.cplx THEN QOk(Quantity(<<"imag">>, <<>>), win) ELSE QErr("RuntimeError", win)
  ELSE IF e.kind = "Magnitude" THEN MagnitudeScaleData(e, x)
  ELSE IF e.kind = "Phase" THEN QOk(Quantity(<<"angle">>, <<>>), win)
  ELSE LET g == GetIF(e.ifst, x.instf)
       IN IF g.err # "" THEN QErr(g.err, g.win)
          ELSE QOk(Quantity(<<"get_if">>, g.out), g.win)

NoERes ==
  [op |-> "none", x |-> NoInput, err |-> "", called |-> FALSE, passed |-> NoQuantity]

(***************************************************************************)
(* The session.                                                            *)
(***************************************************************************)
NoRes ==
  [op |-> "none", self |-> NoObj, other |-> NoObj, third |-> NoObj,
   x |-> <<>>, time |-> <<>>, out |-> <<>>, outTime |-> <<>>, err |-> "",
   made |-> NoObj, err2 |-> "", made2 |-> NoObj, log |-> <<>>]

Transforms == LeafObjs \cup {cur}

Init ==
  /\ attrs = [t \in PlainLeaves |-> AudioTransformFlags]
  /\ fit = [t \in ReprLeaves |-> Unfitted]
  /\ cur = NewCompose(<<>>)
  /\ res = NoRes
  /\ ifst = IFInit("FORWARD", FALSE)
  /\ ifres = NoIFRes
  /\ cart = NewCartesian("GAUSSIAN", "GAUSSIAN", "-2")
  /\ cres = NoCRes
  /\ elem = NewElem("Real", "NONE", FALSE, "FORWARD", FALSE)
  /\ eres = NoERes

NothingFitted == \A t \in ReprLeaves : fit[t] = Unfitted

Fits(r) == r.err # "" \/ Len(r.obj.transforms) <= MaxLen

\* cur = a + b      (transforms are composed before any of them is fitted)
Add(a, b) ==
  /\ NothingFitted
  /\ IsAudioTransform(a) \/ IsAudioTransform(b)
  /\ LET r == BinaryAdd(a, b) IN
       /\ Fits(r)
       /\ cur' = IF r.err = "" THEN r.obj ELSE cur
       /\ res' = [NoRes EXCEPT !.op = "add", !.self = a, !.other = b,
                               !.err = r.err, !.made = r.obj]
  /\ UNCHANGED <<attrs, fit, ifVars, reprVars, elemVars>>

\* (a + b) + c  against  a + (b + c)
AddThree(a, b, c) ==
  /\ NothingFitted
  /\ LET l == AddLeft(a, b, c)
         r == AddRight(a, b, c) IN
       /\ Fits(l) /\ Fits(r)
       /\ res' = [NoRes EXCEPT !.op = "add3", !.self = a, !.other = b, !.third = c,
                               !.err = l.err, !.made = l.obj,
                               !.err2 = r.err, !.made2 = r.obj]
  /\ UNCHANGED <<attrs, fit, cur, ifVars, reprVars, elemVars>>

\* t.<flag> = v on an instance whose class keeps the flag as a plain attribute
SetFlag(t, name, v) ==
  /\ attrs' = [attrs EXCEPT ![t][name] = v]
  /\ attrs' # attrs
  /\ res' = [NoRes EXCEPT !.op = "setflag", !.self = Leaf(t)]
  /\ UNCHANGED <<fit, cur, ifVars, reprVars, elemVars>>

\* o.forward(x)
DoForward(o, x) ==
  /\ res' = [NoRes EXCEPT !.op = "forward", !.self = o, !.x = x,
                          !.out = Forward(o, x, fit)]
  /\ UNCHANGED <<attrs, fit, cur, ifVars, reprVars, elemVars>>

\* o.forward_with_time(x, time)
DoForwardWithTime(o, x, time) ==
  /\ LET r == ForwardWithTime(o, x, time, fit) IN
       res' = [NoRes EXCEPT !.op = "forward_with_time", !.self = o, !.x = x,
                            !.time = time, !.out = r[1], !.outTime = r[2]]
  /\ UNCHANGED <<attrs, fit, cur, ifVars, reprVars, elemVars>>

\* o.invert(y)
DoInvert(o, y) ==
  /\ LET r == Invert(o, y, fit, FALSE) IN
       res' = [NoRes EXCEPT !.op = "invert", !.self = o, !.x = y,
                            !.out = r.val, !.err = r.err]
  /\ UNCHANGED <<attrs, fit, cur, ifVars, reprVars, elemVars>>

\* o.scale_data(x)
DoScaleData(o, x) ==
  /\ LET st == ScaleData(o, x, [fit |-> fit, log |-> <<>>]) IN
       /\ fit' = st.fit
       /\ res' = [NoRes EXCEPT !.op = "scale_data", !.self = o, !.x = x, !.log = st.log]
  /\ UNCHANGED <<attrs, cur, ifVars, reprVars, elemVars>>

\* Composition: + between transforms and with a non-transform.
Next ==
  \/ \E a, b \in Transforms \cup {NonTransform} : Add(a, b)
  \/ \E a, b, c \in Transforms : AddThree(a, b, c)

Spec == Init /\ [][Next]_vars

\* Composition and application: forward, forward_with_time, invert.
NextApply ==
  \/ \E a, b \in Transforms : Add(a, b)
  \/ \E o \in Transforms, x \in Inputs : DoForward(o, x)
  \/ \E o \in Transforms, x \in Inputs, time \in Times : DoForwardWithTime(o, x, time)
  \/ \E o \in Transforms, y \in Inputs : DoInvert(o, y)

SpecApply == Init /\ [][NextApply]_vars

\* Composition, flag changes and invert.
NextFlags ==
  \/ \E a, b \in Transforms : Add(a, b)
  \/ \E t \in PlainLeaves, name \in FlagNames, v \in BOOLEAN : SetFlag(t, name, v)
  \/ \E o \in Transforms, y \in Inputs : DoInvert(o, y)

SpecFlags == Init /\ [][NextFlags]_vars

\* Composition, then fitting and forward.
NextScale ==
  \/ \E a, b \in Transforms : Add(a, b)
  \/ \E o \in Transforms, x \in Inputs : DoScaleData(o, x)
  \/ \E o \in Transforms, x \in Inputs : DoForward(o, x)

SpecScale == Init /\ [][NextScale]_vars

\* test_combinations on transform o: scale_data only if o.needs_scaling, then
\* forward_with_time, then invert only if o.invertible
TestCombination(o, x, time) ==
  /\ LET unscaled == [fit |-> fit, log |-> <<>>]
         st == IF NeedsScaling(o, attrs) THEN ScaleData(o, x, unscaled) ELSE unscaled
         fw == ForwardWithTime(o, x, time, st.fit)
         inv == IF Invertible(o, attrs) THEN Invert(o, fw[1], st.fit, FALSE) ELSE Ok(<<>>)
     IN /\ fit' = st.fit
        /\ res' = [NoRes EXCEPT !.op = "combination", !.self = o, !.x = x, !.time = time,
                                !.out = fw[1], !.outTime = fw[2], !.log = st.log,
                                !.err = inv.err]
  /\ UNCHANGED <<attrs, cur, ifVars, reprVars, elemVars>>

\* Composition, flag changes and the run of test_combinations.
NextCombination ==
  \/ \E a, b \in Transforms : Add(a, b)
  \/ \E t \in PlainLeaves, name \in FlagNames, v \in BOOLEAN : SetFlag(t, name, v)
  \/ \E o \in Transforms, x \in Inputs, time \in Times : TestCombination(o, x, time)

SpecCombination == Init /\ [][NextCombination]_vars
(***************************************************************************)
(* The IF instance in use.                                                 *)
(***************************************************************************)
\* IF(mode = None, method = ..., weighted = ...)
InitIF ==
  /\ attrs = [t \in PlainLeaves |-> AudioTransformFlags]
  /\ fit = [t \in ReprLeaves |-> Unfitted]
  /\ cur = NewCompose(<<>>)
  /\ res = NoRes
  /\ \E m \in IFMethods, w \in BOOLEAN : ifst = IFInit(m, w)
  /\ ifres = NoIFRes
  /\ cart = NewCartesian("GAUSSIAN", "GAUSSIAN", "-2")
  /\ cres = NoCRes
  /\ elem = NewElem("Real", "NONE", FALSE, "FORWARD", FALSE)
  /\ eres = NoERes

\* y = transform(x)
DoIFForward(instf) ==
  /\ LET r == IFForward(ifst, instf) IN
       /\ ifst' = [ifst EXCEPT !.weighted_window = r.win]
       /\ ifres' = [NoIFRes EXCEPT !.op = "forward", !.method = ifst.method,
                                   !.weighted = ifst.weighted, !.x = instf,
                                   !.out = r.out, !.err = r.err,
                                   !.window = IF r.err = "" /\ Len(r.out) > 0
                                              THEN r.out[1].w ELSE 0]
  /\ UNCHANGED <<composeVars, reprVars, elemVars>>

\* transform.scale_data(x)
DoIFScaleData(instf) ==
  /\ LET r == IFScaleData(ifst, instf)
         g == GetIF(ifst, instf) IN
       /\ ifst' = [ifst EXCEPT !.weighted_window = r.win]
       /\ ifres' = [NoIFRes EXCEPT !.op = "scale_data", !.method = ifst.method,
                                   !.weighted = ifst.weighted, !.x = instf,
                                   !.err = r.err,
                                   !.window = IF g.err = "" /\ Len(g.out) > 0
                                              THEN g.out[1].w ELSE 0]
  /\ UNCHANGED <<composeVars, reprVars, elemVars>>

\* transform.invert(y) on the output of the last forward
DoIFInvertLast ==
  /\ ifres.op = "forward"
  /\ ifres.err = ""
  /\ LET r == IFInvert(ifst, ifres.out) IN
       ifres' = [NoIFRes EXCEPT !.op = "invert", !.method = ifst.method,
                                !.weighted = ifres.weighted, !.x = ifres.x,
                                !.out = r.pre, !.fint = r.fint,
                                !.roundTrip = TRUE, !.fmethod = ifres.method]
  /\ UNCHANGED <<composeVars, ifst, reprVars, elemVars>>

\* transform.invert(y) on a tensor that comes from elsewhere
DoIFInvert(y) ==
  /\ LET r == IFInvert(ifst, y) IN
       ifres' = [NoIFRes EXCEPT !.op = "invert", !.method = ifst.method,
                                !.x = y, !.out = r.pre, !.fint = r.fint]
  /\ UNCHANGED <<composeVars, ifst, reprVars, elemVars>>

\* transform.method = m   (as PolarIF.test_inversion does on its phase child)
SetMethod(m) ==
  /\ m # ifst.method
  /\ ifst' = [ifst EXCEPT !.method = m]
  /\ UNCHANGED <<composeVars, ifres, reprVars, elemVars>>

NextIF ==
  \/ \E x \in Tensors : DoIFForward(x)
  \/ \E x \in Tensors : DoIFScaleData(x)
  \/ DoIFInvertLast
  \/ \E y \in Tensors : DoIFInvert(y)
  \/ \E m \in MethodValues : SetMethod(m)

SpecIF == InitIF /\ [][NextIF]_vars

(***************************************************************************)
(* The Cartesian instance in use.                                          *)
(***************************************************************************)
\* Cartesian(real_mode = ..., imag_mode = ..., stack = ...)
InitCartesian ==
  /\ attrs = [t \in PlainLeaves |-> AudioTransformFlags]
  /\ fit = [t \in ReprLeaves |-> Unfitted]
  /\ cur = NewCompose(<<>>)
  /\ res = NoRes
  /\ ifst = IFInit("FORWARD", FALSE)
  /\ ifres = NoIFRes
  /\ \E rm, im \in NormModes, st \in {"-2", "None"} : cart = NewCartesian(rm, im, st)
  /\ cres = NoCRes
  /\ elem = NewElem("Real", "NONE", FALSE, "FORWARD", FALSE)
  /\ eres = NoERes

\* transform.scale_data(x)
DoCartScaleData(x) ==
  /\ LET r == SpectralScaleData(cart, x) IN
       /\ cart' = r.c
       /\ cres' = [NoCRes EXCEPT !.op = "scale_data", !.x = x, !.err = r.err]
  /\ UNCHANGED <<composeVars, ifVars, elemVars>>

\* y = transform(x)
DoCartForward(x) ==
  /\ cres' = [NoCRes EXCEPT !.op = "forward", !.x = x, !.fwd = SpectralForward(cart, x)]
  /\ UNCHANGED <<composeVars, ifVars, cart, elemVars>>

\* transform.invert(y) on the output of the last forward
DoCartInvert ==
  /\ cres.op = "forward"
  /\ cres' = [NoCRes EXCEPT !.op = "invert", !.x = cres.x, !.fwd = cres.fwd,
                            !.out = SpectralInvert(cart, cres.fwd)]
  /\ UNCHANGED <<composeVars, ifVars, cart, elemVars>>

NextCartesian ==
  \/ \E x \in CartInputs : DoCartScaleData(x)
  \/ \E x \in CartInputs : DoCartForward(x)
  \/ DoCartInvert

SpecCartesian == InitCartesian /\ [][NextCartesian]_vars

(***************************************************************************)
(* An elementary representation in use.                                    *)
(***************************************************************************)
\* Real(), Imaginary(), Magnitude(contrast = ..., mel = ...), Phase(),
\* IF(method = ..., weighted = ...)
InitElem ==
  /\ attrs = [t \in PlainLeaves |-> AudioTransformFlags]
  /\ fit = [t \in ReprLeaves |-> Unfitted]
  /\ cur = NewCompose(<<>>)
  /\ res = NoRes
  /\ ifst = IFInit("FORWARD", FALSE)
  /\ ifres = NoIFRes
  /\ cart = NewCartesian("GAUSSIAN", "GAUSSIAN", "-2")
  /\ cres = NoCRes
  /\ \/ \E kind \in {"Real", "Imaginary", "Phase"} :
          elem = NewElem(kind, "NONE", FALSE, "FORWARD", FALSE)
     \/ \E c \in ContrastValues, mel \in BOOLEAN :
          elem = NewElem("Magnitude", c, mel, "FORWARD", FALSE)
     \/ \E m \in IFMethods, w \in BOOLEAN :
          elem = NewElem("IF", "NONE", FALSE, m, w)
  /\ eres = NoERes

\* transform.scale_data(x)
DoElemScaleData(x) ==
  /\ LET r == ElemScaleData(elem, x) IN
       /\ elem' = [elem EXCEPT !.ifst.weighted_window = r.win,
                               !.fitted = IF r.called THEN r.q ELSE @,
                               !.fittedX = IF r.called THEN x ELSE @]
       /\ eres' = [NoERes EXCEPT !.op = "scale_data", !.x = x, !.err = r.err,
                                 !.called = r.called, !.passed = r.q]
  /\ UNCHANGED <<composeVars, ifVars, reprVars>>

\* y = transform(x)
DoElemForward(x) ==
  /\ LET r == ElemForward(elem, x) IN
       /\ elem' = [elem EXCEPT !.ifst.weighted_window = r.win]
       /\ eres' = [NoERes EXCEPT !.op = "forward", !.x = x, !.err = r.err,
                                 !.called = r.called, !.passed = r.q]
  /\ UNCHANGED <<composeVars, ifVars, reprVars>>

NextElem ==
  \/ \E x \in ElemInputs(elem.kind) : DoElemScaleData(x)
  \/ \E x \in ElemInputs(elem.kind) : DoElemForward(x)

SpecElem == InitElem /\ [][NextElem]_vars

(***************************************************************************)
(* Properties of the composition algebra.                                  *)
(***************************************************************************)
\* A's children if A is composed, A itself otherwise
Children(o) == IF IsCompose(o) THEN o.transforms ELSE <<o>>

\* what the child's own invert returns when called as t.invert(y)
RECURSIVE InvertsInReverse(_, _, _)
InvertsInReverse(ts, y, f) ==
  IF ts = <<>> THEN y
  ELSE Invert(Head(ts), InvertsInReverse(Tail(ts), y, f), f, FALSE).val

\* t1 first, tn last
RECURSIVE ForwardsInOrder(_, _, _, _)
ForwardsInOrder(ts, i, x, f) ==
  IF i = 0 THEN x
  ELSE Forward(ts[i], ForwardsInOrder(ts, i - 1, x, f), f)

\* C1: invert of a composed transform with child list [t1..tn] returns
\* t1.invert(t2.invert(... tn.invert(y))), each child's invert applied once,
\* in reverse list order; forward applies t1 first and tn last.
C1_InvertReversesChildren ==
  /\ (res.op = "invert" /\ IsCompose(res.self)) =>
        /\ res.err = ""
        /\ res.out = InvertsInReverse(res.self.transforms, res.x, fit)
  /\ (res.op = "forward" /\ IsCompose(res.self)) =>
        res.out = ForwardsInOrder(res.self.transforms, Len(res.self.transforms), res.x, fit)

\* C2: (A+B)+C and A+(B+C) are both built, with the identical flat child
\* list: A's children, then B's, then C's, none of them a composed transform.
C2_AddAssociativeFlat ==
  res.op = "add3" =>
     /\ res.err = "" /\ res.err2 = ""
     /\ res.made = res.made2
     /\ res.made.transforms = Children(res.self) \o Children(res.other) \o Children(res.third)
     /\ \A i \in 1..Len(res.made.transforms) : ~IsCompose(res.made.transforms[i])

\* C3: at every moment, after any compositions and flag changes, a composed
\* transform reads invertible iff all its children are invertible, scriptable
\* iff all are scriptable, and needs_scaling iff at least one child needs
\* scaling.
C3_AggregateFlags ==
  LET ts == cur.transforms IN
  /\ Invertible(cur, attrs) = (\A i \in 1..Len(ts) : Invertible(ts[i], attrs))
  /\ Scriptable(cur, attrs) = (\A i \in 1..Len(ts) : Scriptable(ts[i], attrs))
  /\ NeedsScaling(cur, attrs) = (\E i \in 1..Len(ts) : NeedsScaling(ts[i], attrs))

\* C3 witness: a flag was just changed on a child of a composition of at
\* least two children, which now reads not invertible and needing scaling.
C3_Witness ==
  /\ res.op = "setflag"
  /\ Len(cur.transforms) >= 2
  /\ \E i \in 1..Len(cur.transforms) : cur.transforms[i] = res.self
  /\ ~Invertible(cur, attrs)
  /\ NeedsScaling(cur, attrs)
  /\ \E i \in 1..Len(cur.transforms) : ~NeedsScaling(cur.transforms[i], attrs)

\* C4: invert on a transform that reads invertible = false (a single one, or
\* a composition with a non-invertible child) fails with NotInvertibleError
\* and returns nothing.
C4_NotInvertibleRaises ==
  (res.op = "invert" /\ ~Invertible(res.self, attrs)) =>
     (res.err = "NotInvertibleError" /\ res.out = <<>>)

\* C5: a + between a transform and a non-transform, on either side, raises
\* TypeError, builds no composed transform and changes nothing.
C5_NonTransformAddFails ==
  [][(res'.op = "add" /\ (~IsAudioTransform(res'.self) \/ ~IsAudioTransform(res'.other)))
       => (res'.err = "TypeError" /\ res'.made = NoObj /\ cur' = cur
           /\ attrs' = attrs /\ fit' = fit)]_vars

\* C5 witness: a non-transform was added on the left of a composition of two.
C5_Witness ==
  /\ res.op = "add"
  /\ res.self = NonTransform
  /\ IsCompose(res.other)
  /\ Len(res.other.transforms) >= 2
  /\ res.err = "TypeError"

\* the value child i is to be fitted on: the forward of children 1..i-1,
\* each fitted on its own such value, applied to x
RECURSIVE FittedOn(_, _, _)
FittedOn(ts, i, x) ==
  IF i = 1 THEN x
  ELSE LET e == FittedOn(ts, i - 1, x)
       IN IF ts[i - 1].cls = "AudioTransform" THEN e
          ELSE Append(e, [op |-> "forward", t |-> ts[i - 1].id, fit |-> e])

ScaleDataLeftToRight ==
  LET ts == res.self.transforms IN
  /\ Len(res.log) = Len(ts)
  /\ \A i \in 1..Len(ts) : res.log[i].t = ts[i].id
  /\ \A i \in 1..Len(ts) : res.log[i].x = FittedOn(ts, i, res.x)

\* each child was fitted on what it receives in a forward(x) made now
FittedOnForwardInputs ==
  LET ts == res.self.transforms IN
  \A i \in 1..Len(ts) : res.log[i].x = ForwardInputs(ts, res.x, fit)[i]

\* no instance that owns a normaliser occurs at two places of the list
NoRepeatedFittedChild(ts) ==
  \A i, j \in 1..Len(ts) : (i # j /\ ts[i] = ts[j]) => ts[i].cls = "AudioTransform"

\* C7 as stated: scale_data(x) of a composed transform calls each child's
\* scale_data once, left to right, child i on the forward of children 1..i-1
\* (as fitted in this call) of x; so each child was fitted on exactly what it
\* receives in a subsequent forward(x).
C7_ScaleDataMirrorsForward ==
  (res.op = "scale_data" /\ IsCompose(res.self)) =>
     (ScaleDataLeftToRight /\ FittedOnForwardInputs)

\* C7 amended: the same, the last part for a child list in which no instance
\* owning fitted state occurs twice (an instance at two places is refitted at
\* the second, and forward uses that last fit at both).
C7_ScaleDataMirrorsForwardDistinct ==
  (res.op = "scale_data" /\ IsCompose(res.self)) =>
     /\ ScaleDataLeftToRight
     /\ NoRepeatedFittedChild(res.self.transforms) => FittedOnForwardInputs

\* C7 witness: a composition of three children, two distinct representations
\* among them, was fitted.
C7_Witness ==
  /\ res.op = "scale_data"
  /\ IsCompose(res.self)
  /\ Len(res.self.transforms) = 3
  /\ NoRepeatedFittedChild(res.self.transforms)
  /\ \E i, j \in 1..3 : i < j /\ res.self.transforms[i] = Leaf(2) /\ res.self.transforms[j] = Leaf(3)
  /\ fit[3] # res.x

\* C10: forward_with_time returns (forward(x), time), the time channel being
\* the caller's, for a single transform and for a composition (every class
\* here uses the default forward_with_time).
C10_TimeCarriedThrough ==
  res.op = "forward_with_time" =>
     /\ res.outTime = res.time
     /\ res.out = Forward(res.self, res.x, fit)

\* C10 witness: forward_with_time of a composition holding both
\* representation leaves.
C10_Witness ==
  /\ res.op = "forward_with_time"
  /\ IsCompose(res.self)
  /\ \E i, j \in 1..Len(res.self.transforms) :
        i < j /\ res.self.transforms[i] = Leaf(3) /\ res.self.transforms[j] = Leaf(2)
  /\ res.outTime = res.time
  /\ Len(res.out) >= 3
(***************************************************************************)
(* Properties of the spectral representations.                             *)
(***************************************************************************)
\* the allowance for fixed-point rounding, well above the 1e-4 of the claim
Tol == Scale \div 200

\* C6: for a complex input a+bi, Cartesian.forward yields the pair
\* [norm(a), norm(b)] and Cartesian.invert of that pair gives a+bi back.
C6_CartesianRoundTrip ==
  (cres.op = "invert" /\ cres.x.cplx) =>
     /\ cres.fwd.first = NormForward(cart.magnitude, cres.x.re)
     /\ cres.fwd.second = NormForward(cart.phase, cres.x.im)
     /\ Abs(cres.out.re - cres.x.re) <= Tol
     /\ Abs(cres.out.im - cres.x.im) <= Tol

\* C8: for each method, invert multiplies back exactly what get_if divided
\* by: inverting the output of forward under the same method leaves every
\* entry with the scale it had before get_if scaled it.
C8_InvertUndoesScale ==
  (ifres.op = "invert" /\ ifres.roundTrip /\ ifres.method \in IFMethods
     /\ ifres.fmethod = ifres.method) =>
     \A i \in 1..Len(ifres.out) :
        ifres.out[i].n = 1 /\ ifres.out[i].d = 1 /\ ifres.out[i].pi = 0

\* C9: with weighted enabled, every forward / scale_data call succeeds, uses
\* the window of the length N of its own input, and leaves the cache holding
\* the window of that length.
C9_WindowCachePerLength ==
  (ifres.op \in {"forward", "scale_data"} /\ ifres.weighted /\ ifres.method \in IFMethods) =>
     /\ ifres.err = ""
     /\ ifres.window = Len(ifres.x)
     /\ ifst.weighted_window[Len(ifst.weighted_window)] = Len(ifres.x)

\* C11: an IF whose method is none of FORWARD, BACKWARD, CENTRAL raises the
\* attribute error on forward, on scale_data and on invert; no call returns a
\* result computed without a finite-difference scheme.
C11_UnknownMethodRaises ==
  (ifres.op \in {"forward", "scale_data", "invert"} /\ ifres.method \notin IFMethods) =>
     (ifres.err = "AttributeError" /\ ifres.out = <<>>)

\* the transform holds an instance that owns a normaliser
HasRepresentation(o) ==
  \E i \in 1..Len(Children(o)) : Children(o)[i].cls = "_Representation"

\* C12: every representation owning a fitted normaliser reads needs_scaling =
\* true, so a composition holding one reads true, and a caller that fits only
\* when needs_scaling is true (test_combinations) has every such child fitted
\* before its first forward.
C12_RepresentationsNeedScaling ==
  (res.op = "combination" /\ HasRepresentation(res.self)) =>
     /\ \A i \in 1..Len(Children(res.self)) :
           Children(res.self)[i].cls = "_Representation"
              => NeedsScaling(Children(res.self)[i], attrs)
     /\ NeedsScaling(res.self, attrs)
     /\ \A k \in 1..Len(res.out) :
           res.out[k].op = "forward" => res.out[k].fit # Unfitted

\* C13: for every elementary representation, scale_data(x) fits the
\* normaliser on exactly the quantity forward(x) passes to the normaliser: a
\* forward of the x the instance was last fitted with hands the normaliser
\* what it was fitted on (the instance being configured with a ContrastMode).
C13_FittedOnNormalisedQuantity ==
  (eres.op = "forward" /\ elem.fittedX = eres.x /\ elem.contrast_mode \in ContrastModes) =>
     (eres.err = "" /\ eres.called /\ eres.passed = elem.fitted)
====
